---- MODULE Spec2Model ----
(***************************************************************************)
(* SLCAN bridge (slcan.ino): the serial line assembler and command parser, *)
(* the open/closed bus flag, the frame encoder and the polling loop().     *)
(* Characters are their ASCII codes; C arrays are functions on 0..n-1.     *)
(***************************************************************************)
EXTENDS Integers, Sequences, FiniteSets, TLC

\* ---------------------------------------------------------------- bounds
MaxPending == 2     \* frames the controller holds before the loop polls
MaxRxQueue == 1     \* bytes waiting in the serial receive buffer (Spec)
MaxLong    == 33    \* longest line the host sends in SpecLong
MaxTrail   == 2     \* characters after the payload of a transmit line

\* ------------------------------------------------------------ characters
ASCII ==
  << " ", "!", "dquote", "#", "$", "%", "&", "quote", "(", ")", "*", "+", ",", "-", ".", "/",
     "0", "1", "2", "3", "4", "5", "6", "7", "8", "9", ":", ";", "<", "=", ">", "?",
     "@", "A", "B", "C", "D", "E", "F", "G", "H", "I", "J", "K", "L", "M", "N", "O",
     "P", "Q", "R", "S", "T", "U", "V", "W", "X", "Y", "Z", "[", "backslash", "]", "^", "_",
     "backtick", "a", "b", "c", "d", "e", "f", "g", "h", "i", "j", "k", "l", "m", "n", "o",
     "p", "q", "r", "s", "t", "u", "v", "w", "x", "y", "z" >>

\* the code of a printable character, as a C character literal has it
Ord(ch) == 31 + (CHOOSE i \in 1..Len(ASCII) : ASCII[i] = ch)

\* a C string literal as the sequence of its character codes
Str(s) == [i \in 1..Len(s) |-> Ord(s[i])]

\* the character literals the program and the C library compare with
ch_space == Ord(" ")
ch_plus == Ord("+")
ch_minus == Ord("-")
ch_0 == Ord("0")
ch_9 == Ord("9")
ch_A == Ord("A")
ch_C == Ord("C")
ch_F == Ord("F")
ch_O == Ord("O")
ch_T == Ord("T")
ch_X == Ord("X")
ch_a == Ord("a")
ch_f == Ord("f")
ch_t == Ord("t")
ch_x == Ord("x")
ch_z == Ord("z")

NUL == 0
BEL == 7
LF  == 10
CR  == 13

\* sizeof(slcanBuf) and sizeof(out)
BufSize == 32
OutSize == 32

\* the value of a byte that was never written (stack or register garbage)
Uninit == -1

\* A 32-bit unsigned value (canid_t, unsigned long) is the pair of its 16-bit
\* halves, [hi, lo]: TLC's integers end below 2^31.
Half == 65536

U32(n) == [hi |-> n \div Half, lo |-> n % Half]

\* -n in 32 bits, for 0 <= n < 2^31: the complement of n - 1
Neg32(n) ==
  IF n = 0 THEN U32(0)
  ELSE [hi |-> Half - 1 - ((n - 1) \div Half), lo |-> Half - 1 - ((n - 1) % Half)]

\* CAN_EFF_FLAG (bit 31) and CAN_RTR_FLAG (bit 30) as bits of the high half,
\* and the 11-bit mask 0x7FF
EFF_FLAG_HI == 32768
RTR_FLAG_HI == 16384
SFF_MASK    == 2047

\* ----------------------------------------------------------- <ctype.h>
toupper(c) == IF c >= ch_a /\ c <= ch_z THEN c - 32 ELSE c

isspace(c) == c = 32 \/ (c >= 9 /\ c <= 13)

isxdigit(c) ==
  \/ (c >= ch_0 /\ c <= ch_9)
  \/ (c >= ch_A /\ c <= ch_F)
  \/ (c >= ch_a /\ c <= ch_f)

HexVal(c) ==
  IF c >= ch_0 /\ c <= ch_9 THEN c - ch_0
  ELSE IF c >= ch_A /\ c <= ch_F THEN c - ch_A + 10
  ELSE c - ch_a + 10

\* ------------------------------------------------- strtoul(s, nullptr, 16)
\* s is a NUL-terminated char array, given as a sequence that ends with NUL.
\* The arrays the program passes hold at most 3 characters, so the sum stays
\* below 4096 and the saturation at ULONG_MAX is never taken.
RECURSIVE SkipSpace(_, _)
SkipSpace(s, i) == IF isspace(s[i]) THEN SkipSpace(s, i + 1) ELSE i

RECURSIVE Accumulate(_, _, _)
Accumulate(s, i, acc) ==
  IF isxdigit(s[i])
  THEN Accumulate(s, i + 1, acc * 16 + HexVal(s[i]))
  ELSE acc

strtoul16(s) ==
  LET i   == SkipSpace(s, 1)
      neg == s[i] = ch_minus
      j   == IF s[i] = ch_minus \/ s[i] = ch_plus THEN i + 1 ELSE i
      k   == IF s[j] = ch_0 /\ (s[j + 1] = ch_x \/ s[j + 1] = ch_X)
             THEN j + 2 ELSE j
      acc == Accumulate(s, k, 0)
  IN  IF neg THEN Neg32(acc) ELSE U32(acc)


\* ------------------------------------------------------------- variables
VARIABLES
  slcanBuf,    \* char slcanBuf[32]
  slcanLen,    \* uint8_t slcanLen
  canOpen,     \* bool canOpen
  rxFrame,     \* struct can_frame rxFrame
  serialRx,    \* bytes Serial holds, not yet read
  canPending,  \* frames the controller holds, not yet read
  wire,        \* bytes the host has sent that have not reached Serial yet
  c,           \* the byte loop() read in its last iteration, or NoByte
  cmd,         \* the line parseSlcan got in the last iteration, or <<>>
  reads,       \* the indexes of cmd[] parseSlcan read in the last iteration
  written,     \* the Serial.write calls of the last iteration, in order
  sendCalls,   \* the frames given to sendMessage in the last iteration
  rxOk,        \* readMessage returned ERROR_OK in the last iteration
  lastOC,      \* first character of the last dispatched line that began
               \* with O or C, or NUL when there was none yet
  calls,       \* the calls into Serial and mcp2515 of the last iteration,
               \* in the order they were made
  sendResult   \* what sendMessage returned in the last iteration, or "none"

prog  == <<slcanBuf, slcanLen, canOpen, rxFrame>>
env   == <<serialRx, canPending, wire>>
trace == <<c, cmd, reads, written, sendCalls, rxOk, lastOC, calls, sendResult>>
vars  == <<slcanBuf, slcanLen, canOpen, rxFrame, serialRx, canPending, wire,
           c, cmd, reads, written, sendCalls, rxOk, lastOC, calls, sendResult>>

NoByte == -2

\* one Serial.write call: the function that made it and the bytes it wrote
Write(fn, bytes) == [by |-> fn, bytes |-> bytes]

\* ------------------------------------------------------------ parseSlcan
\* the switch on cmd[0]
Branch(c0) ==
  IF c0 = ch_O THEN "open"
  ELSE IF c0 = ch_C THEN "close"
  ELSE IF c0 = ch_T \/ c0 = ch_t THEN "transmit"
  ELSE "default"

\* idStr, dlcStr and the two strtoul calls
TxId(line)  == strtoul16(<<line[1], line[2], line[3], NUL>>)
TxDlc(line) == strtoul16(<<line[4], NUL>>).lo % 256

\* mutant: the loop runs can_dlc times, without the "&& i < 8"
TxCount_NoCap(dlc) == dlc

\* the payload loop runs while i < txFrame.can_dlc && i < 8
TxCount(dlc) == IF dlc < 8 THEN dlc ELSE 8

\* mutant: p advances by one character per byte
TxByte_StepOne(line, i) ==
  strtoul16(<<line[5 + i], line[6 + i], NUL>>).lo % 256

TxByte(line, i) ==
  strtoul16(<<line[5 + 2 * i], line[6 + 2 * i], NUL>>).lo % 256

txFrame(line) ==
  [can_id  |-> TxId(line),
   can_dlc |-> TxDlc(line),
   data    |-> [i \in 0..7 |-> IF i < TxCount(TxDlc(line))
                               THEN TxByte(line, i) ELSE Uninit]]

\* the indexes of cmd[] the transmit case reads
TxReads(line) ==
  {1, 2, 3, 4} \cup
  UNION {{5 + 2 * i, 6 + 2 * i} : i \in 0..(TxCount(TxDlc(line)) - 1)}

\* mutant: the default case falls into the close case
OpenAfter_DefaultCloses(br, open) == br = "open"

\* mutant: the transmit case opens the bus as well
OpenAfter_TransmitOpens(br, open) ==
  IF br = "open" \/ br = "transmit" THEN TRUE
  ELSE IF br = "close" THEN FALSE ELSE open

\* canOpen after the switch
OpenAfter(br, open) ==
  IF br = "open" THEN TRUE ELSE IF br = "close" THEN FALSE ELSE open

\* mutant: the default case does not clear ack
AckAfter_NotCleared(br) == TRUE

\* the value of ack after the switch
AckAfter(br) == br # "default"

\* what the default case writes
Nack(br) == IF br = "default" THEN <<Write("parseSlcan", <<BEL>>)>> ELSE <<>>

\* what the if (ack) after the switch writes
Ack(ack) == IF ack THEN <<Write("parseSlcan", <<CR>>)>> ELSE <<>>

\* mutant: the transmit case sends only while the bus is open
Transmits_Gated(br, open) == br = "transmit" /\ open

\* the transmit case calls sendMessage, and does not look at canOpen
Transmits(br, open) == br = "transmit"

\* mutant: the acknowledgment is written before the switch
ParseCalls_AckFirst(sends, nack, ack) ==
  [k \in 1..Len(ack) |-> "Serial.write"]
    \o [k \in 1..Len(sends) |-> "sendMessage"]
    \o [k \in 1..Len(nack) |-> "Serial.write"]

\* the calls parseSlcan makes, in order: those of the switch (sendMessage in
\* the transmit case, Serial.write in the default case), then the one of
\* the if (ack) after it
ParseCalls(sends, nack, ack) ==
  [k \in 1..Len(sends) |-> "sendMessage"]
    \o [k \in 1..Len(nack) |-> "Serial.write"]
    \o [k \in 1..Len(ack) |-> "Serial.write"]

\* parseSlcan(cmd) with cmd pointing at the array line[] and canOpen = open:
\* the new canOpen, the sendMessage calls, the writes, the indexes read and
\* the calls in their order
parseSlcan(line, open) ==
  LET br    == Branch(line[0])
      sends == IF Transmits(br, open) THEN <<txFrame(line)>> ELSE <<>>
  IN  [canOpen   |-> OpenAfter(br, open),
       sendCalls |-> sends,
       written   |-> Nack(br) \o Ack(AckAfter(br)),
       reads     |-> IF br = "transmit" THEN {0} \cup TxReads(line) ELSE {0},
       calls     |-> ParseCalls(sends, Nack(br), Ack(AckAfter(br)))]

\* -------------------------------------------------------- sendSlcanFrame
\* mutant: the conversion is %x
HexDigit_Lower(d) == IF d < 10 THEN ch_0 + d ELSE ch_a + d - 10

\* one digit as "%X" prints it
HexDigit(d) == IF d < 10 THEN ch_0 + d ELSE ch_A + d - 10

RECURSIVE HexDigits(_)
HexDigits(v) ==
  IF v < 16 THEN <<HexDigit(v)>>
  ELSE Append(HexDigits(v \div 16), HexDigit(v % 16))

RECURSIVE PadLeft(_, _, _)
PadLeft(s, width, pad) ==
  IF Len(s) < width THEN PadLeft(<<pad>> \o s, width, pad) ELSE s

\* mutant: the byte is a signed char, so a value of 128 or more is printed
\* as the four digits of a 16-bit int
Fmt02X_SignExtended(v) ==
  Append(PadLeft(HexDigits(IF v >= 128 THEN 65280 + v ELSE v), 2, ch_0), NUL)

\* what sprintf stores for "%03X", "%1X" and "%02X": the digits and a NUL
Fmt03X(v) == Append(PadLeft(HexDigits(v), 3, ch_0), NUL)
Fmt1X(v)  == Append(PadLeft(HexDigits(v), 1, ch_space), NUL)
Fmt02X(v) == Append(PadLeft(HexDigits(v), 2, ch_0), NUL)

\* the array out[] after the characters s are stored from out + pos on
Poke(out, pos, s) ==
  [i \in DOMAIN out |->
     IF i >= pos /\ i < pos + Len(s) THEN s[i - pos + 1] ELSE out[i]]

\* the indexes of out[] that storing the characters s from out + pos touches
PokeIdx(pos, s) == pos..(pos + Len(s) - 1)

\* mutant: the test reads CAN_RTR_FLAG
IsExtended_RtrFlag(f) == (f.can_id.hi \div RTR_FLAG_HI) % 2 = 1

\* f.can_id & CAN_EFF_FLAG
IsExtended(f) == (f.can_id.hi \div EFF_FLAG_HI) % 2 = 1

\* out[] and pos after 't', the identifier and the length
EncodeHead(f) ==
  LET o0 == [i \in 0..(OutSize - 1) |-> Uninit]
      o1 == Poke(o0, 0, <<ch_t>>)
      o2 == Poke(o1, 1, Fmt03X(f.can_id.lo % (SFF_MASK + 1)))
      o3 == Poke(o2, 4, Fmt1X(f.can_dlc % 16))
  IN  [out |-> o3, pos |-> 5,
       idx |-> {0} \cup PokeIdx(1, Fmt03X(f.can_id.lo % (SFF_MASK + 1)))
                   \cup PokeIdx(4, Fmt1X(f.can_dlc % 16))]

\* mutant: every byte printed is f.data[0]
DataByte_First(f, i) == f.data[0]

\* f.data[i]
DataByte(f, i) == f.data[i]

\* the payload loop, from byte i on
RECURSIVE EncodeData(_, _, _)
EncodeData(f, st, i) ==
  IF i < f.can_dlc
  THEN EncodeData(f, [out |-> Poke(st.out, st.pos, Fmt02X(DataByte(f, i))),
                      pos |-> st.pos + 2,
                      idx |-> st.idx \cup PokeIdx(st.pos, Fmt02X(DataByte(f, i)))],
                  i + 1)
  ELSE st

\* out[pos++] = '\r'
EncodeTail(st) ==
  [out |-> Poke(st.out, st.pos, <<CR>>), pos |-> st.pos + 1,
   idx |-> st.idx \cup {st.pos}]

\* the indexes of out[] sendSlcanFrame(f) stores into, terminating NULs included
OutIndexes(f) == EncodeTail(EncodeData(f, EncodeHead(f), 0)).idx

\* the bytes Serial.write(out, pos) sends
Encoded(f) ==
  LET st == EncodeTail(EncodeData(f, EncodeHead(f), 0))
  IN  [i \in 1..st.pos |-> st.out[i - 1]]

\* the Serial.write calls of sendSlcanFrame(f)
sendSlcanFrame(f) ==
  IF IsExtended(f) THEN <<>> ELSE <<Write("sendSlcanFrame", Encoded(f))>>

\* ------------------------------------------------------------------ loop
IsTerminator(ch) == ch = CR \/ ch = LF

\* mutant: the test is slcanLen >= 0
ShouldDispatch_Empty(len) == len >= 0

\* if (slcanLen > 0)
ShouldDispatch(len) == len > 0

\* mutant: the test is slcanLen < sizeof(slcanBuf)
HasRoom_NoTerminator(len) == len < BufSize

\* if (slcanLen + 1 < sizeof(slcanBuf))
HasRoom(len) == len + 1 < BufSize

\* mutant: the controller is read whatever the flag says
Polls_Ungated(open) == TRUE

\* mutant: the test is !canOpen
Polls_Inverted(open) == ~open

\* canOpen && mcp2515.readMessage(&rxFrame) == ERROR_OK: the controller is
\* asked only when the flag is set, and answers ERROR_OK when it holds a frame
Polls(open) == open

\* mutant: the serial input is drained, as "while (Serial.available())" with
\* the bytes after the first one thrown away would
AfterRead_Drained(q) == <<>>

\* Serial.read() takes the first byte waiting
AfterRead(q) == Tail(q)

\* mutant: reading one frame releases every receive buffer
AfterReadMessage_All(q) == <<>>

\* readMessage takes the first frame waiting
AfterReadMessage(q) == Tail(q)

\* what sendMessage may return when it is called n times
SendResults(n) == IF n = 0 THEN {"none"} ELSE {"ok", "fail"}

loop ==
  LET avail  == serialRx # <<>>
      ch     == IF avail THEN Head(serialRx) ELSE NoByte
      disp   == avail /\ IsTerminator(ch) /\ ShouldDispatch(slcanLen)
      store  == avail /\ ~IsTerminator(ch) /\ HasRoom(slcanLen)
      line   == [slcanBuf EXCEPT ![slcanLen] = NUL]
      pr     == parseSlcan(line, canOpen)
      open1  == IF disp THEN pr.canOpen ELSE canOpen
      got    == Polls(open1) /\ canPending # <<>>
      frame  == IF got THEN Head(canPending) ELSE rxFrame
      nsend  == IF disp THEN Len(pr.sendCalls) ELSE 0
  IN  /\ serialRx' = IF avail THEN AfterRead(serialRx) ELSE serialRx
      /\ slcanBuf' = IF disp THEN line
                     ELSE IF store
                          THEN [slcanBuf EXCEPT ![slcanLen] = toupper(ch)]
                          ELSE slcanBuf
      /\ slcanLen' = IF disp THEN 0
                     ELSE IF store THEN slcanLen + 1 ELSE slcanLen
      /\ canOpen' = open1
      /\ canPending' = IF got THEN AfterReadMessage(canPending) ELSE canPending
      /\ rxFrame' = frame
      /\ c' = ch
      /\ cmd' = IF disp THEN [i \in 1..slcanLen |-> slcanBuf[i - 1]] ELSE <<>>
      /\ reads' = IF disp THEN pr.reads ELSE {}
      /\ sendCalls' = IF disp THEN pr.sendCalls ELSE <<>>
      /\ written' = (IF disp THEN pr.written ELSE <<>>)
                    \o (IF got THEN sendSlcanFrame(frame) ELSE <<>>)
      /\ rxOk' = got
      /\ lastOC' = IF disp /\ (slcanBuf[0] = ch_O \/ slcanBuf[0] = ch_C)
                   THEN slcanBuf[0] ELSE lastOC
      /\ calls' = (IF avail THEN <<"Serial.read">> ELSE <<>>)
                  \o (IF disp THEN pr.calls ELSE <<>>)
                  \o (IF Polls(open1) THEN <<"readMessage">> ELSE <<>>)
                  \o [k \in 1..(IF got THEN Len(sendSlcanFrame(frame)) ELSE 0)
                        |-> "Serial.write"]
      /\ sendResult' \in SendResults(nsend)
      /\ UNCHANGED wire

\* ----------------------------------------------------------- environment
\* a frame as the controller delivers it: identifier with flags, length 0..8
Frame(flags, id, dlc, first, step) ==
  [can_id |-> [hi |-> flags, lo |-> id], can_dlc |-> dlc,
   data |-> [i \in 0..7 |-> (first + i * step) % 256]]

\* a byte the host sent reaches the serial receive buffer
Arrive ==
  /\ wire # <<>>
  /\ Len(serialRx) < MaxRxQueue
  /\ serialRx' = Append(serialRx, Head(wire))
  /\ wire' = Tail(wire)
  /\ UNCHANGED <<prog, canPending, trace>>

\* the controller receives a frame from the bus
CanArrive(frames) ==
  /\ Len(canPending) < MaxPending
  /\ \E f \in frames : canPending' = Append(canPending, f)
  /\ UNCHANGED <<prog, serialRx, wire, trace>>

\* the host sends one more line once the last one has been taken
HostSend(bursts) ==
  /\ wire = <<>>
  /\ serialRx = <<>>
  /\ \E b \in bursts : wire' = b
  /\ UNCHANGED <<prog, serialRx, canPending, trace>>

InitProgram ==
  /\ slcanBuf = [i \in 0..(BufSize - 1) |-> NUL]
  /\ slcanLen = 0
  /\ canOpen = TRUE
  /\ rxFrame = Frame(0, 0, 0, 0, 0)
  /\ c = NoByte
  /\ cmd = <<>>
  /\ reads = {}
  /\ written = <<>>
  /\ sendCalls = <<>>
  /\ rxOk = FALSE
  /\ lastOC = NUL
  /\ calls = <<>>
  /\ sendResult = "none"

\* ------------------------------------- Spec: serial lines and bus frames
HostLines ==
  { Str(<<"O">>), Str(<<"c">>), Str(<<"Z">>), <<NUL>>, <<>>,
    Str(<<"t", "0", "0", "3", "2", "A", "A", "B", "B">>),
    Str(<<"T", "1", "f", "2", "A">>) }

HostBursts == {l \o <<t>> : l \in HostLines, t \in {CR, LF}}

BusFrames ==
  { Frame(0, 291, 3, 1, 1),
    Frame(EFF_FLAG_HI, 291, 1, 255, 0) }

Init ==
  /\ InitProgram
  /\ serialRx = <<>>
  /\ canPending = <<>>
  /\ wire = <<>>

Next == HostSend(HostBursts) \/ Arrive \/ CanArrive(BusFrames) \/ loop

Spec == Init /\ [][Next]_vars


\* the Serial.write calls of w made by parseSlcan, and by sendSlcanFrame
ParserWrites(w) == SelectSeq(w, LAMBDA e : e.by = "parseSlcan")
Notifications(w) == SelectSeq(w, LAMBDA e : e.by = "sendSlcanFrame")

\* ------------------------- SpecTx: one well-formed transmit line per run
\* three-digit identifiers, in both letter cases
TxIds ==
  { Str(<<"0", "0", "0">>), Str(<<"0", "0", "3">>), Str(<<"1", "2", "3">>),
    Str(<<"7", "F", "F">>), Str(<<"a", "b", "c">>), Str(<<"0", "e", "9">>) }

\* payload bytes as two hex digits
TxPairs ==
  << Str(<<"0", "0">>), Str(<<"A", "A">>), Str(<<"b", "b">>), Str(<<"0", "F">>),
     Str(<<"f", "0">>), Str(<<"1", "9">>), Str(<<"7", "e">>), Str(<<"C", "3">>) >>

\* n payload bytes: the pairs of TxPairs from the k-th on, every step-th
RECURSIVE TxPayload(_, _, _)
TxPayload(n, k, step) ==
  IF n = 0 THEN <<>>
  ELSE TxPairs[(k % Len(TxPairs)) + 1] \o TxPayload(n - 1, k + step, step)

\* characters that follow the payload
TxTrailing == Str(<<"9", "Z", "f", "0", "t", "A", "1", "O">>)

TxLines ==
  { <<first>> \o id \o <<ch_0 + n>> \o TxPayload(n, k, step)
      \o SubSeq(TxTrailing, 1, m) :
      first \in {ch_t, ch_T}, id \in TxIds, n \in 0..8,
      k \in 0..(Len(TxPairs) - 1), step \in {1, 3}, m \in 0..MaxTrail }

InitTx ==
  /\ InitProgram
  /\ serialRx = <<>>
  /\ canPending = <<>>
  /\ \E l \in TxLines, t \in {CR, LF} : wire = Append(l, t)

NextTx == Arrive \/ loop

SpecTx == InitTx /\ [][NextTx]_vars

\* -------------- SpecCodec: one received frame, encoded and fed back in
CodecFrames ==
  { Frame(flags, id, dlc, first, step) :
      flags \in {0, RTR_FLAG_HI, EFF_FLAG_HI},
      id \in {0, 18, 291, SFF_MASK},
      dlc \in 0..8,
      first \in {0, 1, 171, 255},
      step \in {0, 1, 17} }

\* the serial output is wired to the serial input: the notification just
\* written comes back as host input
Loopback ==
  /\ wire = <<>>
  /\ serialRx = <<>>
  /\ Notifications(written) # <<>>
  /\ wire' = Notifications(written)[1].bytes
  /\ UNCHANGED <<prog, serialRx, canPending, trace>>

InitCodec ==
  /\ InitProgram
  /\ serialRx = <<>>
  /\ wire = <<>>
  /\ \E f \in CodecFrames : canPending = <<f>>

NextCodec == loop \/ Loopback \/ Arrive

SpecCodec == InitCodec /\ [][NextCodec]_vars

\* --------------------------- SpecLong: lines at and beyond the capacity
\* n lower-case letters, the alphabet from its k-th letter on, cyclically
LongLine(n, k) == [i \in 1..n |-> ch_a + ((i - 1 + k) % 26)]

LongBursts ==
  { Append(LongLine(n, k), t) :
      n \in (BufSize - 3)..MaxLong, k \in {0, 2, 19, 25}, t \in {CR, LF} }

NextLong == HostSend(LongBursts) \/ Arrive \/ loop

SpecLong == Init /\ [][NextLong]_vars

\* ------------------- SpecBurst: whole bursts waiting in the receive buffer
\* every byte the host sent reaches the serial receive buffer
ArriveAll ==
  /\ wire # <<>>
  /\ serialRx' = serialRx \o wire
  /\ wire' = <<>>
  /\ UNCHANGED <<prog, canPending, trace>>

NextBurst == HostSend(HostBursts) \/ ArriveAll \/ CanArrive(BusFrames) \/ loop

SpecBurst == Init /\ [][NextBurst]_vars

\* ------------- SpecShort: transmit lines shorter than what they declare
\* lines of 1 to 31 characters whose length digit, when they have one, is
\* a digit up to 8, a digit above 8, or no hexadecimal digit at all
ShortLines ==
  { Str(<<"t">>),
    Str(<<"T", "1", "2">>),
    Str(<<"t", "1", "2", "3", "8">>),
    Str(<<"t", "1", "2", "3", "9", "A", "B">>),
    Str(<<"t", "1", "2", "3", "F">>),
    Str(<<"t", "1", "2", "3", "f", "A", "B", "C">>),
    Str(<<"t", "1", "2", "3", "Z">>),
    Str(<<"t", "0", "0", "0", "0">>),
    Str(<<"t", "7", "F", "F", "F">>) \o LongLine(BufSize - 6, 0) }

ShortBursts == { Append(l, CR) : l \in ShortLines }

NextShort == HostSend(ShortBursts) \/ Arrive \/ loop

SpecShort == Init /\ [][NextShort]_vars

\* ------------------------ SpecFair: loop() is called again and again
\* the Arduino core calls loop() forever
FairLines ==
  { Str(<<"O">>), Str(<<"c">>), Str(<<"Z">>), Str(<<"t", "0", "0", "1", "0">>) }

FairBursts == { Append(l, CR) : l \in FairLines }

FairFrames == { Frame(0, 291, 1, 1, 1), Frame(0, 5, 0, 0, 0) }

NextFair == HostSend(FairBursts) \/ Arrive \/ CanArrive(FairFrames) \/ loop

\* loop() seen through the two queues: the byte and the frame an iteration
\* takes
LoopTakes ==
  LET avail == serialRx # <<>>
      disp  == avail /\ IsTerminator(Head(serialRx)) /\ ShouldDispatch(slcanLen)
      open1 == IF disp THEN OpenAfter(Branch(slcanBuf[0]), canOpen) ELSE canOpen
      got   == Polls(open1) /\ canPending # <<>>
  IN  /\ serialRx' = IF avail THEN AfterRead(serialRx) ELSE serialRx
      /\ canPending' = IF got THEN AfterReadMessage(canPending) ELSE canPending
      /\ wire' = wire

\* an iteration that has a byte or a frame to take is not put off forever
SpecFair ==
  Init /\ [][NextFair]_vars /\ WF_<<serialRx, canPending>>(LoopTakes)

\* every iteration of loop() is a LoopTakes step
LoopTakesIsLoop == [][loop => LoopTakes]_vars

\* ======================================================== the claims
\* bit 31 of the identifier word is set: the frame has an extended identifier
HasExtendedFlag(f) == f.can_id.hi >= EFF_FLAG_HI

\* this step is an iteration of loop() that reads a line terminator while
\* the line buffer holds characters: it dispatches the buffered line
Dispatching ==
  /\ loop
  /\ serialRx # <<>>
  /\ Head(serialRx) \in {CR, LF}
  /\ slcanLen > 0

\* C1: once a line starting with C has been dispatched, no frame
\* notification is written until a line starting with O is dispatched; and an
\* iteration that finds the bus open when it comes to the controller, and a
\* standard frame pending there, writes that frame's notification (last).
C1_ForwardingFollowsOpenClose ==
  [][ /\ (lastOC' = ch_C => Notifications(written') = <<>>)
      /\ (loop /\ canOpen' /\ canPending # <<>> /\ ~HasExtendedFlag(Head(canPending))
          => /\ written' # <<>>
             /\ written'[Len(written')] =
                  Write("sendSlcanFrame", Encoded(Head(canPending)))
             /\ canPending' = Tail(canPending)) ]_vars

\* a frame waits in the controller while the last of O and C was a C, and
\* the iteration that just ran did not take it
C1_Witness ==
  /\ lastOC = ch_C
  /\ canPending # <<>>
  /\ ~HasExtendedFlag(Head(canPending))
  /\ c = CR
  /\ cmd # <<>>
  /\ ~rxOk

\* C2: every completed non-empty line gets exactly one response byte: CR
\* when its first character is O, C, t or T, BEL for any other.
C2_OneResponsePerLine ==
  [][ Dispatching =>
        ParserWrites(written') =
          << Write("parseSlcan",
                   IF slcanBuf[0] \in {ch_O, ch_C, ch_t, ch_T}
                   THEN <<CR>> ELSE <<BEL>>) >> ]_vars

\* a line that begins with Z was answered with one BEL
C2_Witness ==
  /\ cmd # <<>>
  /\ cmd[1] = Ord("Z")
  /\ ParserWrites(written) = <<Write("parseSlcan", <<BEL>>)>>

\* the hex digit at index 4 of a dispatched line, 0 when the line has none
DeclaredLength(l) ==
  IF Len(l) >= 5 /\ isxdigit(l[5]) THEN HexVal(l[5]) ELSE 0

\* a transmit line too short for the data length it declares
ShortTransmit(l) ==
  /\ l # <<>>
  /\ l[1] \in {ch_t, ch_T}
  /\ Len(l) < 5 + 2 * DeclaredLength(l)

\* C3: a transmit line shorter than 5 + 2 * declared_length is answered
\* with BEL, sendMessage is not called, and no character beyond the end of
\* the line is read.
C3_ShortTransmitRejected ==
  ShortTransmit(cmd) =>
    /\ ParserWrites(written) = <<Write("parseSlcan", <<BEL>>)>>
    /\ sendCalls = <<>>
    /\ \A i \in reads : i < Len(cmd)

\* C7: a polled frame with the extended flag writes nothing, and on its own
\* leaves the bus flag and the line buffer as they were; it is consumed.
C7_ExtendedFrameDropped ==
  [][ (loop /\ rxOk' /\ HasExtendedFlag(rxFrame'))
      => /\ Notifications(written') = <<>>
         /\ canPending' = Tail(canPending)
         /\ rxFrame' = Head(canPending)
         /\ (serialRx = <<>>
             => written' = <<>> /\ UNCHANGED <<slcanBuf, slcanLen, canOpen>>) ]_vars

\* an extended frame was taken in an iteration that read no byte
C7_Witness ==
  /\ rxOk
  /\ HasExtendedFlag(rxFrame)
  /\ c = NoByte
  /\ written = <<>>

\* C8: a line whose first character is none of O, C, t, T leaves the bus
\* flag alone and calls no sendMessage; it writes one BEL and the line
\* buffer is reset.
C8_UnrecognizedHasNoEffect ==
  [][ (Dispatching /\ slcanBuf[0] \notin {ch_O, ch_C, ch_t, ch_T})
      => /\ canOpen' = canOpen
         /\ sendCalls' = <<>>
         /\ ParserWrites(written') = <<Write("parseSlcan", <<BEL>>)>>
         /\ slcanLen' = 0
         /\ slcanBuf' = [slcanBuf EXCEPT ![slcanLen] = NUL] ]_vars

\* a line beginning with Z was dispatched while the bus was open
C8_Witness ==
  /\ cmd # <<>>
  /\ cmd[1] = Ord("Z")
  /\ canOpen
  /\ lastOC = ch_O
  /\ sendCalls = <<>>

\* C9: a CR or LF read while the line buffer is empty dispatches nothing,
\* writes no response and changes neither the buffer nor the bus flag.
C9_EmptyTerminatorIgnored ==
  [][ (loop /\ serialRx # <<>> /\ Head(serialRx) \in {CR, LF} /\ slcanLen = 0)
      => /\ cmd' = <<>>
         /\ ParserWrites(written') = <<>>
         /\ sendCalls' = <<>>
         /\ UNCHANGED <<slcanBuf, slcanLen, canOpen>> ]_vars

\* an LF was read with nothing buffered and nothing was dispatched
C9_Witness ==
  /\ c = LF
  /\ cmd = <<>>
  /\ slcanLen = 0
  /\ written = <<>>


\* the sixteen upper-case hex digits, and a digit's value as its place there
HexChars ==
  Str(<<"0", "1", "2", "3", "4", "5", "6", "7",
        "8", "9", "A", "B", "C", "D", "E", "F">>)

IsHexChar(ch) == \E k \in 1..16 : HexChars[k] = ch

DigitValue(ch) == (CHOOSE k \in 1..16 : HexChars[k] = ch) - 1

\* the base-16 value of a sequence of hex digits
RECURSIVE Base16(_)
Base16(ds) ==
  IF ds = <<>> THEN 0
  ELSE Base16(SubSeq(ds, 1, Len(ds) - 1)) * 16 + DigitValue(ds[Len(ds)])

\* v as w upper-case hex digits, zero padded
RECURSIVE Pow16(_)
Pow16(k) == IF k = 0 THEN 1 ELSE 16 * Pow16(k - 1)

HexText(v, w) == [k \in 1..w |-> HexChars[((v \div Pow16(w - k)) % 16) + 1]]

\* a dispatched line l (l[1] is cmd[0]) is a well-formed transmit line
WellFormedTransmit(l) ==
  /\ Len(l) >= 5
  /\ l[1] \in {ch_t, ch_T}
  /\ \A i \in 2..5 : IsHexChar(l[i])
  /\ DigitValue(l[5]) <= 8
  /\ Len(l) >= 5 + 2 * DigitValue(l[5])
  /\ \A i \in 6..(5 + 2 * DigitValue(l[5])) : IsHexChar(l[i])

\* C4: a well-formed transmit line hands sendMessage the frame with the
\* identifier of characters 1..3, the length n of character 4 and payload byte
\* i of characters 5+2i and 6+2i; nothing after index 4+2n is read or used.
C4_TransmitDecodesFields ==
  WellFormedTransmit(cmd) =>
    LET n == DigitValue(cmd[5])
    IN  /\ Len(sendCalls) = 1
        /\ sendCalls[1].can_id = U32(Base16(SubSeq(cmd, 2, 4)))
        /\ sendCalls[1].can_dlc = n
        /\ \A i \in 0..(n - 1) :
             sendCalls[1].data[i] = Base16(<<cmd[6 + 2 * i], cmd[7 + 2 * i]>>)
        /\ \A i \in n..7 : sendCalls[1].data[i] = Uninit
        /\ reads = 0..(4 + 2 * n)

\* a line with 8 payload bytes and characters after them was sent
C4_Witness ==
  /\ WellFormedTransmit(cmd)
  /\ DigitValue(cmd[5]) = 8
  /\ Len(cmd) > 21
  /\ sendCalls # <<>>
  /\ sendCalls[1].data[7] = 195

\* the identifier is a plain 11-bit one
StandardId(f) == f.can_id.hi = 0 /\ f.can_id.lo <= SFF_MASK

\* C5: the line the encoder writes for a frame with identifier <= 0x7FF and
\* length 0..8, fed byte by byte through loop(), ends in one sendMessage
\* call with the same identifier, length and payload.
C5_EncodeThenParseRoundTrip ==
  (cmd # <<>> /\ StandardId(rxFrame)) =>
    /\ Len(sendCalls) = 1
    /\ sendCalls[1].can_id = rxFrame.can_id
    /\ sendCalls[1].can_dlc = rxFrame.can_dlc
    /\ \A i \in 0..(rxFrame.can_dlc - 1) :
         sendCalls[1].data[i] = rxFrame.data[i]

\* the frame 7FF with 8 bytes 0xAB, 0xBC, ... came back through the parser
C5_Witness ==
  /\ cmd # <<>>
  /\ rxFrame = Frame(0, SFF_MASK, 8, 171, 17)
  /\ sendCalls # <<>>
  /\ sendCalls[1].data[7] = rxFrame.data[7]

\* the notification of frame f as the protocol defines it
Notification(f) ==
  LET RECURSIVE Payload(_)
      Payload(i) ==
        IF i >= f.can_dlc THEN <<>>
        ELSE HexText(f.data[i], 2) \o Payload(i + 1)
  IN  <<ch_t>> \o HexText(f.can_id.lo % 2048, 3) \o HexText(f.can_dlc, 1)
        \o Payload(0) \o <<CR>>

\* C6: for a received standard frame of length n the encoder writes exactly
\* 6 + 2n bytes: t, the identifier masked to 11 bits as 3 upper-case hex
\* digits, n as 1 digit, each payload byte as 2 digits, and one CR.
C6_NotificationFormat ==
  (rxOk /\ ~HasExtendedFlag(rxFrame)) =>
    /\ Len(Notifications(written)) = 1
    /\ Notifications(written)[1].bytes = Notification(rxFrame)
    /\ Len(Notifications(written)[1].bytes) = 6 + 2 * rxFrame.can_dlc

\* identifier 0x123 with data 01 02 03 was written as t1233010203 and CR
C6_Witness ==
  /\ rxOk
  /\ rxFrame = Frame(0, 291, 3, 1, 1)
  /\ written =
       << Write("sendSlcanFrame",
                Append(Str(<<"t", "1", "2", "3", "3", "0", "1", "0", "2", "0", "3">>),
                       CR)) >>

\* C10: the line buffer never holds more than 31 characters; a byte that is
\* no terminator and arrives when 31 are buffered is dropped with no
\* response; the next terminator dispatches the first 31 characters of the
\* line and empties the buffer.
C10_LineCappedAt31 ==
  [][ /\ slcanLen <= BufSize - 1
      /\ slcanLen' <= BufSize - 1
      /\ (loop /\ serialRx # <<>> /\ Head(serialRx) \notin {CR, LF}
               /\ slcanLen = BufSize - 1
          => /\ UNCHANGED <<slcanBuf, slcanLen, canOpen>>
             /\ cmd' = <<>>
             /\ written' = <<>>
             /\ sendCalls' = <<>>)
      /\ (Dispatching /\ slcanLen = BufSize - 1
          => /\ slcanLen' = 0
             /\ Len(cmd') = BufSize - 1
             /\ \E b \in LongBursts :
                  /\ Len(b) >= BufSize
                  /\ cmd' = [i \in 1..(BufSize - 1) |-> toupper(b[i])]) ]_vars

\* a byte was read with 31 characters buffered and was not stored
C10_Witness ==
  /\ slcanLen = BufSize - 1
  /\ c \notin {CR, LF, NoByte}
  /\ toupper(c) # slcanBuf[BufSize - 2]

\* C11: every frame handed to sendMessage has an identifier of at most
\* 0x7FF and a data length of at most 8, whatever transmit line was
\* dispatched.
C11_SentFrameInRange ==
  \A i \in DOMAIN sendCalls :
    /\ sendCalls[i].can_id.hi = 0
    /\ sendCalls[i].can_id.lo <= 2047
    /\ sendCalls[i].can_dlc <= 8

\* C12: canOpen is true until the first line starting with O or C is
\* dispatched; it changes only in an iteration that dispatches a line
\* starting with O, which leaves it true, or with C, which leaves it false;
\* every other step (a transmit or unrecognized line, a stored character,
\* an empty terminator, a forwarded frame, an arrival) leaves it as it was.
C12_BusStateChangesOnlyOnOpenClose ==
  [][ /\ (lastOC = NUL => canOpen)
      /\ (lastOC' = NUL => canOpen')
      /\ (canOpen' # canOpen => Dispatching /\ slcanBuf[0] \in {ch_O, ch_C})
      /\ (Dispatching /\ slcanBuf[0] = ch_O => canOpen')
      /\ (Dispatching /\ slcanBuf[0] = ch_C => ~canOpen')
      /\ (Dispatching /\ slcanBuf[0] \notin {ch_O, ch_C} => canOpen' = canOpen)
    ]_vars

\* the last iteration dispatched a line starting with C and the bus, open
\* at the start, is closed
C12_Witness ==
  /\ cmd # <<>>
  /\ cmd[1] = ch_C
  /\ lastOC = ch_C
  /\ ~canOpen

\* C13: no line handed to parseSlcan contains a NUL byte or a lowercase
\* letter, whatever bytes the host sent.
C13_LineHasNoNulNoLowercase ==
  \A i \in DOMAIN cmd : cmd[i] # NUL /\ cmd[i] \notin ch_a..ch_z

\* the positions of the call named n in the sequence of calls s
CallsAt(s, n) == { k \in DOMAIN s : s[k] = n }

\* C14: an iteration that dispatches a transmit line calls sendMessage
\* exactly once, and that call comes before the one Serial.write of the
\* acknowledgment CR; the CR is written whether sendMessage returns
\* success or failure.
C14_SendOnceThenAck ==
  [][ Dispatching /\ slcanBuf[0] = ch_T
      => /\ Len(sendCalls') = 1
         /\ Cardinality(CallsAt(calls', "sendMessage")) = 1
         /\ sendResult' \in {"ok", "fail"}
         /\ ParserWrites(written') = << Write("parseSlcan", <<CR>>) >>
         /\ Len(calls') >= 3
         /\ calls'[1] = "Serial.read"
         /\ calls'[2] = "sendMessage"
         /\ calls'[3] = "Serial.write" ]_vars

\* a transmit line was dispatched, sendMessage reported a failure, and the
\* CR was written
C14_Witness ==
  /\ cmd # <<>>
  /\ cmd[1] = ch_T
  /\ sendResult = "fail"
  /\ Len(sendCalls) = 1
  /\ ParserWrites(written) = << Write("parseSlcan", <<CR>>) >>

\* C15: an iteration of loop() takes at most one byte from the serial
\* receive buffer and at most one frame from the controller; the byte is
\* read, and a line it completes is dispatched and answered, before the
\* controller is asked for a frame; the bytes and frames not taken stay
\* queued in their order.
C15_OneByteThenOneFrame ==
  [][ loop
      => /\ \/ serialRx' = serialRx
            \/ serialRx # <<>> /\ serialRx' = Tail(serialRx)
         /\ wire' = wire
         /\ \/ canPending' = canPending
            \/ canPending # <<>> /\ canPending' = Tail(canPending)
         /\ Cardinality(CallsAt(calls', "Serial.read")) <= 1
         /\ Cardinality(CallsAt(calls', "readMessage")) <= 1
         /\ \A k \in CallsAt(calls', "readMessage") :
              /\ \A j \in CallsAt(calls', "Serial.read") : j < k
              /\ \A j \in CallsAt(calls', "sendMessage") : j < k
              /\ Cardinality({ j \in CallsAt(calls', "Serial.write") : j < k })
                   = Len(ParserWrites(written'))
         /\ written' = ParserWrites(written') \o Notifications(written') ]_vars

\* the last iteration read one byte and took one frame while more bytes
\* and another frame were waiting, and those are still waiting
C15_Witness ==
  /\ c # NoByte
  /\ Len(serialRx) >= 2
  /\ rxOk
  /\ canPending # <<>>

\* C16: when loop() keeps being called, a byte waiting in the serial
\* receive buffer is eventually read, a line whose terminator is waiting
\* behind a non-empty buffer eventually gets its response, and, unless the
\* bus gets closed, a frame waiting in the controller is eventually the
\* frame read from it; frames arriving all the time do not hold up the
\* serial side, and bytes arriving all the time do not hold up the frames.
C16_NeitherSourceStarves ==
  /\ (serialRx # <<>>) ~> (serialRx = <<>>)
  /\ (serialRx # <<>> /\ Head(serialRx) \in {CR, LF} /\ slcanLen > 0)
       ~> (cmd # <<>> /\ ParserWrites(written) # <<>>)
  /\ \A f \in FairFrames :
       (canOpen /\ ~rxOk /\ canPending # <<>> /\ Head(canPending) = f)
         ~> (~canOpen \/ (rxOk /\ rxFrame = f))

\* one iteration answered a line and forwarded a frame while another frame
\* was waiting
C16_Witness ==
  /\ cmd # <<>>
  /\ ParserWrites(written) # <<>>
  /\ Notifications(written) # <<>>
  /\ rxOk
  /\ canPending # <<>>

\* C17: a transmit line dispatched while the bus is closed still calls
\* sendMessage, once, with the frame decoded from the line, is answered
\* with CR and nothing else, and leaves the bus closed.
C17_TransmitWhileClosed ==
  [][ Dispatching /\ slcanBuf[0] = ch_T /\ ~canOpen
      => /\ sendCalls' = << txFrame([slcanBuf EXCEPT ![slcanLen] = NUL]) >>
         /\ written' = << Write("parseSlcan", <<CR>>) >>
         /\ ~canOpen' ]_vars

\* the line T0032AABB was dispatched after a line starting with C, and
\* sendMessage got the frame with identifier 3 and the bytes AA BB
C17_Witness ==
  /\ lastOC = ch_C
  /\ ~canOpen
  /\ cmd = Str(<<"T", "0", "0", "3", "2", "A", "A", "B", "B">>)
  /\ Len(sendCalls) = 1
  /\ sendCalls[1].can_id = [hi |-> 0, lo |-> 3]
  /\ sendCalls[1].can_dlc = 2
  /\ sendCalls[1].data[0] = 170
  /\ sendCalls[1].data[1] = 187
  /\ written = << Write("parseSlcan", <<CR>>) >>

\* C18: an iteration that ends with the bus closed does not call
\* readMessage and leaves the frames in the controller as they are; the
\* iteration that dispatches a line starting with O already takes the
\* frame that arrived first, and every iteration takes the frames from the
\* front, so they are forwarded in the order they arrived.
C18_ClosedBusKeepsFrames ==
  [][ /\ (loop /\ ~canOpen'
          => /\ CallsAt(calls', "readMessage") = {}
             /\ canPending' = canPending
             /\ rxFrame' = rxFrame
             /\ ~rxOk'
             /\ Notifications(written') = <<>>)
      /\ (Dispatching /\ slcanBuf[0] = ch_O /\ canPending # <<>>
          => /\ rxOk'
             /\ rxFrame' = Head(canPending)
             /\ canPending' = Tail(canPending)
             /\ (~HasExtendedFlag(Head(canPending))
                 => Notifications(written')
                      = << Write("sendSlcanFrame", Notification(Head(canPending))) >>))
      /\ (loop /\ rxOk'
          => /\ canPending # <<>>
             /\ rxFrame' = Head(canPending)
             /\ canPending' = Tail(canPending)) ]_vars

\* the iteration that dispatched the line O took the first of the frames
\* waiting in the controller and left the next one waiting
C18_Witness ==
  /\ cmd = <<ch_O>>
  /\ canOpen
  /\ rxOk
  /\ Notifications(written) # <<>>
  /\ canPending # <<>>

\* C19: whatever line is dispatched, every index of the line buffer that
\* parseSlcan reads is inside the 32-byte array, and none is above 20 (the
\* second digit of the eighth payload byte); a transmit line shorter than
\* what it declares reads the terminator and bytes left from earlier
\* lines, inside the array.
C19_ReadsInsideBuffer ==
  /\ reads \subseteq 0..(BufSize - 1)
  /\ \A i \in reads : i <= 5 + 2 * 7 + 1

\* the one-character line T was dispatched and parseSlcan read up to
\* index 20
C19_Witness ==
  /\ cmd = <<ch_T>>
  /\ 5 + 2 * 7 + 1 \in reads

\* C20: for a received standard frame with a data length of 0..8, every
\* index of out[] that sendSlcanFrame stores into, the NUL after each
\* sprintf included, is below 32: the highest one is 5 + 2 * can_dlc, at
\* most 21, and the line written has 6 + 2 * can_dlc bytes, at most 22.
\* The payload loop runs can_dlc times: two digits per byte for all of
\* can_dlc bytes.
C20_EncoderStaysInsideOut ==
  (rxOk /\ ~HasExtendedFlag(rxFrame) /\ rxFrame.can_dlc <= 8) =>
    /\ OutIndexes(rxFrame) \subseteq 0..(OutSize - 1)
    /\ \A i \in OutIndexes(rxFrame) : i <= 5 + 2 * rxFrame.can_dlc
    /\ 5 + 2 * rxFrame.can_dlc \in OutIndexes(rxFrame)
    /\ 5 + 2 * rxFrame.can_dlc <= 21
    /\ Len(Notifications(written)) = 1
    /\ Len(Notifications(written)[1].bytes) = 6 + 2 * rxFrame.can_dlc
    /\ Len(Notifications(written)[1].bytes) <= 22

\* a standard frame with eight data bytes, the last of them above 127, was
\* read and encoded
C20_Witness ==
  /\ rxOk
  /\ ~HasExtendedFlag(rxFrame)
  /\ rxFrame.can_dlc = 8
  /\ rxFrame.data[7] >= 128
  /\ Len(Notifications(written)) = 1
  /\ Len(Notifications(written)[1].bytes) = 22

====
